---- MODULE Spec2Model ----
(***************************************************************************)
(* Model of release.py: the version bump of pyproject.toml (bump_version)  *)
(* and the release sequence of main (read, bump, write, clean, build,      *)
(* twine check, twine upload).                                             *)
(*                                                                         *)
(* A text is a sequence of one-character strings.  The regular expression  *)
(* of bump_version is matched character by character.                      *)
(***************************************************************************)
EXTENDS Integers, Sequences, FiniteSets, TLC

VARIABLES
    file,         \* content of pyproject.toml on disk
    original,     \* history: content of pyproject.toml when the run began
    artifacts,    \* build output directories that exist in the working directory
    pc,           \* position in main ("imported" when main is not run)
    part,         \* args.part
    repo,         \* args.repo
    no_upload,    \* args.no_upload
    content,      \* main: content (the text handed to bump_version)
    new_content,  \* main: new_content (first component of bump_version's result)
    new_version,  \* main: new_version (second component of bump_version's result)
    raised,       \* the exception that ended the run or the call, "none" if none
    steps,        \* history: the steps of main executed so far, in order
    cmds,         \* history: the command lines handed to run, in order
    rcs,          \* history: the exit status of each command of cmds
    tw_user,      \* main: tw_user
    tw_pass,      \* main: tw_pass
    calls         \* number of direct calls of bump_version (library use)

vars == <<file, original, artifacts, pc, part, repo, no_upload, content,
          new_content, new_version, raised, steps, cmds, rcs, tw_user,
          tw_pass, calls>>

(***************************************************************************)
(* Bounds of the model.                                                    *)
(***************************************************************************)
\* lines per manifest text
MaxLines == 2
\* successive calls of bump_version on its own output
MaxBumps == 2

(***************************************************************************)
(* Characters.                                                             *)
(***************************************************************************)
Q == "\""
NL == "\n"
TAB == "\t"
DigitChars == <<"0", "1", "2", "3", "4", "5", "6", "7", "8", "9">>

\* [0-9]
IsDigit(c) == \E d \in 1..10 : DigitChars[d] = c

\* \s
IsSpace(c) == c \in {" ", TAB, NL}

\* int() of a non-empty string of decimal digits
RECURSIVE IntOf(_)
IntOf(ds) ==
    IF ds = <<>> THEN 0
    ELSE LET last == ds[Len(ds)]
             v    == (CHOOSE d \in 1..10 : DigitChars[d] = last) - 1
         IN  IntOf(SubSeq(ds, 1, Len(ds) - 1)) * 10 + v

\* the f-string conversion of a non-negative int: plain decimal
RECURSIVE Dec(_)
Dec(n) ==
    IF n < 10 THEN <<DigitChars[n + 1]>>
    ELSE Dec(n \div 10) \o <<DigitChars[(n % 10) + 1]>>

(***************************************************************************)
(* The pattern of bump_version, compiled with re.MULTILINE:                *)
(*   ^(version\s*=\s*\")([0-9]+)\.([0-9]+)\.([0-9]+)(\")                   *)
(* one element per atom; "(" and ")" open and close a group.               *)
(***************************************************************************)
pattern ==
    << "^",
       "(", "v", "e", "r", "s", "i", "o", "n", "\\s*", "=", "\\s*", "\\\"", ")",
       "(", "[0-9]+", ")", "\\.", "(", "[0-9]+", ")", "\\.", "(", "[0-9]+", ")",
       "(", "\\\"", ")" >>

\* the character an escaped or plain literal atom stands for
Literal(e) == IF e = "\\\"" THEN Q ELSE IF e = "\\." THEN "." ELSE e

\* the first position >= i that holds no whitespace (\s*, greedy)
RECURSIVE SkipSpace(_, _)
SkipSpace(t, i) ==
    IF i <= Len(t) /\ IsSpace(t[i]) THEN SkipSpace(t, i + 1) ELSE i

\* the first position >= i that holds no digit ([0-9]+, greedy)
RECURSIVE SkipDigits(_, _)
SkipDigits(t, i) ==
    IF i <= Len(t) /\ IsDigit(t[i]) THEN SkipDigits(t, i + 1) ELSE i

NoMatch == [ok |-> FALSE, marks |-> <<>>]

\* a group boundary at position i in front of the rest of a match
Mark(i, rest) ==
    IF rest.ok THEN [ok |-> TRUE, marks |-> <<i>> \o rest.marks] ELSE NoMatch

\* The atoms k.. of the pattern matched against t from position i on.  A
\* repetition takes all it can: the atom that follows \s* or [0-9]+ is never
\* a character of the repeated class, so giving characters back cannot help.
\* marks are the positions of the group boundaries, in order: group g is
\* t[marks[2g-1] .. marks[2g]-1].
RECURSIVE MatchFrom(_, _, _)
MatchFrom(k, t, i) ==
    IF k > Len(pattern) THEN [ok |-> TRUE, marks |-> <<>>]
    ELSE IF pattern[k] = "^"
    THEN IF i = 1 \/ t[i - 1] = NL THEN MatchFrom(k + 1, t, i) ELSE NoMatch
    ELSE IF pattern[k] \in {"(", ")"}
    THEN Mark(i, MatchFrom(k + 1, t, i))
    ELSE IF pattern[k] = "\\s*"
    THEN MatchFrom(k + 1, t, SkipSpace(t, i))
    ELSE IF pattern[k] = "[0-9]+"
    THEN IF SkipDigits(t, i) > i
         THEN MatchFrom(k + 1, t, SkipDigits(t, i)) ELSE NoMatch
    ELSE IF i <= Len(t) /\ t[i] = Literal(pattern[k])
         THEN MatchFrom(k + 1, t, i + 1) ELSE NoMatch

\* the match of the pattern that starts at position i of t, if there is one
MatchAt(t, i) == MatchFrom(1, t, i)

\* pattern.search(t, pos): the positions are tried from pos on, left to
\* right, and the first match found is the result
RECURSIVE search(_, _)
search(t, pos) ==
    IF pos > Len(t) THEN NoMatch
    ELSE IF MatchAt(t, pos).ok THEN MatchAt(t, pos)
    ELSE search(t, pos + 1)

\* m.group(g), m.start() and m.end() of a match m in t
group(t, m, g) == SubSeq(t, m.marks[2 * g - 1], m.marks[2 * g] - 1)
start(m) == m.marks[1]
end(m) == m.marks[10]

(***************************************************************************)
(* bump_version                                                            *)
(***************************************************************************)
UNKNOWN == <<"u", "n", "k", "n", "o", "w", "n">>

\* the value of a local variable that has not been assigned
Unbound == <<"<unbound>">>

\* the f-string of repl: group 1, the three numbers in decimal, group 5
render(g1, v, g5) ==
    g1 \o Dec(v[1]) \o <<".">> \o Dec(v[2]) \o <<".">> \o Dec(v[3]) \o g5

\* the increment of repl for the bump p
successor(major, minor, patch, p) ==
    IF p = "major" THEN <<major + 1, 0, 0>>
    ELSE IF p = "minor" THEN <<major, minor + 1, 0>>
    ELSE <<major, minor, patch + 1>>

\* repl that writes the components it does not change as they were written
repl_keep_digits(t, m, p) ==
    group(t, m, 1)
    \o (IF p = "major" THEN Dec(IntOf(group(t, m, 2)) + 1) ELSE group(t, m, 2))
    \o <<".">>
    \o (IF p = "major" THEN <<"0">>
        ELSE IF p = "minor" THEN Dec(IntOf(group(t, m, 3)) + 1)
        ELSE group(t, m, 3))
    \o <<".">>
    \o (IF p \in {"major", "minor"} THEN <<"0">>
        ELSE Dec(IntOf(group(t, m, 4)) + 1))
    \o group(t, m, 5)

\* repl whose major bump resets minor and patch but does not increment
repl_major_reset_only(t, m, p) ==
    render(group(t, m, 1),
           IF p = "major" THEN <<IntOf(group(t, m, 2)), 0, 0>>
           ELSE successor(IntOf(group(t, m, 2)), IntOf(group(t, m, 3)),
                          IntOf(group(t, m, 4)), p),
           group(t, m, 5))

\* repl whose minor bump does not reset patch
repl_minor_keeps_patch(t, m, p) ==
    render(group(t, m, 1),
           IF p = "minor"
           THEN <<IntOf(group(t, m, 2)), IntOf(group(t, m, 3)) + 1,
                  IntOf(group(t, m, 4))>>
           ELSE successor(IntOf(group(t, m, 2)), IntOf(group(t, m, 3)),
                          IntOf(group(t, m, 4)), p),
           group(t, m, 5))

\* repl(m): the text that replaces the match m of t, for the bump p
repl(t, m, p) ==
    render(group(t, m, 1),
           successor(IntOf(group(t, m, 2)), IntOf(group(t, m, 3)),
                     IntOf(group(t, m, 4)), p),
           group(t, m, 5))

\* pattern.subn(repl, t, count) applied to t from position pos on: the
\* leftmost non-overlapping matches, at most count of them, are replaced.
\* out is the text from pos on after the replacements, n their number.
RECURSIVE subn_from(_, _, _, _)
subn_match(t, p, pos, count, m) ==
    IF ~m.ok
    THEN [out |-> SubSeq(t, pos, Len(t)), n |-> 0]
    ELSE [out |-> SubSeq(t, pos, start(m) - 1) \o repl(t, m, p)
                  \o subn_from(t, p, end(m), count - 1).out,
          n   |-> subn_from(t, p, end(m), count - 1).n + 1]

subn_from(t, p, pos, count) ==
    IF count = 0
    THEN [out |-> SubSeq(t, pos, Len(t)), n |-> 0]
    ELSE subn_match(t, p, pos, count, search(t, pos))

\* subn without count=1: every match is replaced
subn_every(t, p) == subn_from(t, p, 1, Len(t))

\* pattern.subn(repl, text, count=1)
subn(t, p) == subn_from(t, p, 1, 1)

\* re.search(r"^version\s*=\s*\"([0-9]+\.[0-9]+\.[0-9]+)\"", t, re.MULTILINE)
\* matches where the pattern matches; its group 1 runs from the start of the
\* pattern's group 2 to the end of its group 4.  ver_search.group(1) if
\* ver_search else "unknown":
version_of(t, m) ==
    IF m.ok THEN SubSeq(t, m.marks[3], m.marks[8] - 1) ELSE UNKNOWN

\* bump_version from the result r of subn on: the n == 0 check, the second
\* search, the return
bump_return(r) ==
    IF r.n = 0
    THEN [raised      |-> "RuntimeError",
          new_text    |-> Unbound,
          new_version |-> Unbound]
    ELSE [raised      |-> "none",
          new_text    |-> r.out,
          new_version |-> version_of(r.out, search(r.out, 1))]

\* bump_version without the n == 0 check: the text comes back unchanged
bump_version_no_check(text, p) ==
    [raised      |-> "none",
     new_text    |-> subn(text, p).out,
     new_version |-> version_of(subn(text, p).out, search(subn(text, p).out, 1))]

\* bump_version(text, part): raised is "none" and (new_text, new_version) the
\* result, or raised is the exception and nothing is returned
bump_version(text, p) == bump_return(subn(text, p))

(***************************************************************************)
(* The manifest texts the model starts from: up to MaxLines lines of Lines *)
(* joined by newlines.                                                     *)
(***************************************************************************)
KW == <<"v", "e", "r", "s", "i", "o", "n">>

Decl(ws1, ws2, a, b, c) ==
    KW \o ws1 \o <<"=">> \o ws2 \o <<Q>> \o a \o <<".">> \o b \o <<".">> \o c \o <<Q>>

Lines ==
    { Decl(<<" ">>, <<" ">>, <<"1">>, <<"2">>, <<"3">>),
      \* no whitespace, leading zeros, a carry from 9 to 10
      Decl(<<>>, <<>>, <<"0", "1">>, <<"0", "9">>, <<"9">>),
      \* a tab, and text after the closing quote
      Decl(<<TAB>>, <<" ", " ">>, <<"0">>, <<"0">>, <<"0">>) \o <<" ", "#">>,
      \* indented: ^ does not match
      <<" ">> \o Decl(<<" ">>, <<" ">>, <<"7">>, <<"7">>, <<"7">>),
      \* another key
      <<"n", "a", "m", "e", "=", Q, "g", Q>>,
      \* a declaration split over two lines when these two follow each other
      KW,
      <<"=", " ", Q, "2", ".", "0", ".", "9", Q>> }

RECURSIVE Join(_)
Join(ls) ==
    IF Len(ls) = 0 THEN <<>>
    ELSE IF Len(ls) = 1 THEN ls[1]
    ELSE ls[1] \o <<NL>> \o Join(Tail(ls))

Texts == UNION { {Join(ls) : ls \in [1..k -> Lines]} : k \in 0..MaxLines }

Parts == {"patch", "minor", "major"}
Repos == {"pypi", "testpypi"}

\* os.environ.get(name): None when the variable is not set, else its value
None == "<None>"
UserValues == {None, "", "alice"}
PassValues == {None, "", "s3cret"}

ArtifactStates == { {}, {"dist", "build", "egg-info"} }


(***************************************************************************)
(* File access, run, clean                                                 *)
(***************************************************************************)
\* read_pyproject(): the whole content of the file
read_pyproject == file

\* write_pyproject opened in append mode
write_pyproject_append(c) == file' = file \o c

\* write_pyproject(content): the file holds content and nothing else
write_pyproject(c) == file' = c

\* run that does not look at the exit status (subprocess.call)
run_unchecked(cmd, rc, next) ==
    /\ cmds' = Append(cmds, cmd)
    /\ rcs' = Append(rcs, rc)
    /\ pc' = next
    /\ raised' = raised

\* run(cmd): the command runs to its end with exit status rc; check_call
\* raises CalledProcessError when rc is not 0, which ends main
run(cmd, rc, next) ==
    /\ cmds' = Append(cmds, cmd)
    /\ rcs' = Append(rcs, rc)
    /\ pc' = IF rc = 0 THEN next ELSE "aborted"
    /\ raised' = IF rc = 0 THEN raised ELSE "CalledProcessError"

\* clean(): the outcomes of a call when the directories of a exist.
\* shutil.rmtree(d) of dist or build may raise; the removal of *.egg-info
\* ignores errors, so the directory may be left behind.
clean(a) ==
    { [raised |-> "none", artifacts |-> a \ {"dist", "build", "egg-info"}] }
    \cup { [raised |-> "none", artifacts |-> a \ {"dist", "build"}] }
    \cup (IF "dist" \in a
          THEN { [raised |-> "OSError", artifacts |-> a] }
          ELSE {})
    \cup (IF "build" \in a
          THEN { [raised |-> "OSError", artifacts |-> a \ {"dist"}] }
          ELSE {})

(***************************************************************************)
(* main                                                                    *)
(***************************************************************************)
PYTHON == "python"
build_cmd == <<PYTHON, "-m", "build">>
check_cmd == <<PYTHON, "-m", "twine", "check", "dist/*">>

\* upload_cmd with `or` in place of `and` in the credentials test
upload_cmd_either(r, u, p) ==
    <<PYTHON, "-m", "twine", "upload">>
    \o (IF r = "testpypi" THEN <<"--repository", "testpypi">> ELSE <<>>)
    \o (IF (u \notin {None, ""}) \/ (p \notin {None, ""})
        THEN <<"--username", u, "--password", p>> ELSE <<>>)
    \o <<"dist/*">>

\* upload_cmd that always names the test index
upload_cmd_always_test(r, u, p) ==
    <<PYTHON, "-m", "twine", "upload">>
    \o <<"--repository", "testpypi">>
    \o (IF (u \notin {None, ""}) /\ (p \notin {None, ""})
        THEN <<"--username", u, "--password", p>> ELSE <<>>)
    \o <<"dist/*">>

\* upload_cmd as main builds it from args.repo, tw_user and tw_pass;
\* `if tw_user and tw_pass` is false for None and for the empty string
upload_cmd(r, u, p) ==
    <<PYTHON, "-m", "twine", "upload">>
    \o (IF r = "testpypi" THEN <<"--repository", "testpypi">> ELSE <<>>)
    \o (IF (u \notin {None, ""}) /\ (p \notin {None, ""})
        THEN <<"--username", u, "--password", p>> ELSE <<>>)
    \o <<"dist/*">>

Init ==
    /\ file \in Texts
    /\ original = file
    /\ artifacts \in ArtifactStates
    /\ pc = "parse_args"
    /\ part = "patch"
    /\ repo = "pypi"
    /\ no_upload = FALSE
    /\ content = Unbound
    /\ new_content = Unbound
    /\ new_version = Unbound
    /\ raised = "none"
    /\ steps = <<>>
    /\ cmds = <<>>
    /\ rcs = <<>>
    /\ tw_user = Unbound
    /\ tw_pass = Unbound
    /\ calls = 0

\* args = parser.parse_args()
main_parse_args ==
    /\ pc = "parse_args"
    /\ part' \in Parts
    /\ repo' \in Repos
    /\ no_upload' \in BOOLEAN
    /\ pc' = "read"
    /\ UNCHANGED <<file, original, artifacts, content, new_content,
                   new_version, raised, steps, cmds, rcs, tw_user, tw_pass,
                   calls>>

\* content = read_pyproject()
main_read ==
    /\ pc = "read"
    /\ content' = read_pyproject
    /\ steps' = Append(steps, "read")
    /\ pc' = "bump"
    /\ UNCHANGED <<file, original, artifacts, part, repo, no_upload,
                   new_content, new_version, raised, cmds, rcs, tw_user,
                   tw_pass, calls>>

\* new_content, new_version = bump_version(content, part=args.part)
main_bump ==
    /\ pc = "bump"
    /\ \E r \in {bump_version(content, part)} :
          /\ raised' = r.raised
          /\ new_content' = r.new_text
          /\ new_version' = r.new_version
          /\ pc' = IF r.raised = "none" THEN "write" ELSE "aborted"
    /\ steps' = Append(steps, "bump")
    /\ UNCHANGED <<file, original, artifacts, part, repo, no_upload, content,
                   cmds, rcs, tw_user, tw_pass, calls>>

\* main_write that goes on to the build without clean()
main_write_no_clean ==
    /\ pc = "write"
    /\ write_pyproject(new_content)
    /\ steps' = Append(steps, "write")
    /\ pc' = "build"
    /\ UNCHANGED <<original, artifacts, part, repo, no_upload, content,
                   new_content, new_version, raised, cmds, rcs, tw_user,
                   tw_pass, calls>>

\* write_pyproject(new_content)
main_write ==
    /\ pc = "write"
    /\ write_pyproject(new_content)
    /\ steps' = Append(steps, "write")
    /\ pc' = "clean"
    /\ UNCHANGED <<original, artifacts, part, repo, no_upload, content,
                   new_content, new_version, raised, cmds, rcs, tw_user,
                   tw_pass, calls>>

\* clean()
main_clean ==
    /\ pc = "clean"
    /\ \E o \in clean(artifacts) :
          /\ artifacts' = o.artifacts
          /\ raised' = o.raised
          /\ pc' = IF o.raised = "none" THEN "build" ELSE "aborted"
    /\ steps' = Append(steps, "clean")
    /\ UNCHANGED <<file, original, part, repo, no_upload, content,
                   new_content, new_version, cmds, rcs, tw_user, tw_pass,
                   calls>>

\* run([sys.executable, "-m", "build"]); a build that succeeds leaves dist
main_build ==
    /\ pc = "build"
    /\ \E rc \in {0, 1} :
          /\ run(build_cmd, rc, "check")
          /\ artifacts' = IF rc = 0 THEN artifacts \cup {"dist"} ELSE artifacts
    /\ steps' = Append(steps, "build")
    /\ UNCHANGED <<file, original, part, repo, no_upload, content,
                   new_content, new_version, tw_user, tw_pass, calls>>

\* run([sys.executable, "-m", "twine", "check", "dist/*"])
main_check ==
    /\ pc = "check"
    /\ \E rc \in {0, 1} : run(check_cmd, rc, "upload")
    /\ steps' = Append(steps, "check")
    /\ UNCHANGED <<file, original, artifacts, part, repo, no_upload, content,
                   new_content, new_version, tw_user, tw_pass, calls>>

\* if args.no_upload: return
main_no_upload ==
    /\ pc = "upload"
    /\ no_upload
    /\ pc' = "done"
    /\ UNCHANGED <<file, original, artifacts, part, repo, no_upload, content,
                   new_content, new_version, raised, steps, cmds, rcs,
                   tw_user, tw_pass, calls>>

\* the upload: tw_user and tw_pass are read from the environment, the
\* command is built and run
main_upload ==
    /\ pc = "upload"
    /\ ~no_upload
    /\ \E u \in UserValues, p \in PassValues, rc \in {0, 1} :
          /\ tw_user' = u
          /\ tw_pass' = p
          /\ run(upload_cmd(repo, u, p), rc, "done")
    /\ steps' = Append(steps, "upload")
    /\ UNCHANGED <<file, original, artifacts, part, repo, no_upload, content,
                   new_content, new_version, calls>>

Next ==
    \/ main_parse_args
    \/ main_read
    \/ main_bump
    \/ main_write
    \/ main_clean
    \/ main_build
    \/ main_check
    \/ main_no_upload
    \/ main_upload

\* one run of main
Spec == Init /\ [][Next]_vars

(***************************************************************************)
(* bump_version called as a function, then again on its own output        *)
(***************************************************************************)
InitBump ==
    /\ file \in Texts
    /\ original = file
    /\ artifacts = {}
    /\ pc = "imported"
    /\ part \in Parts
    /\ repo = "pypi"
    /\ no_upload = FALSE
    /\ content = file
    /\ new_content = Unbound
    /\ new_version = Unbound
    /\ raised = "none"
    /\ steps = <<>>
    /\ cmds = <<>>
    /\ rcs = <<>>
    /\ tw_user = Unbound
    /\ tw_pass = Unbound
    /\ calls = 0

\* bump_version(content, part)
call_bump_version ==
    /\ pc = "imported"
    /\ calls = 0
    /\ \E r \in {bump_version(content, part)} :
          /\ raised' = r.raised
          /\ new_content' = r.new_text
          /\ new_version' = r.new_version
    /\ calls' = 1
    /\ UNCHANGED <<file, original, artifacts, pc, part, repo, no_upload,
                   content, steps, cmds, rcs, tw_user, tw_pass>>

\* bump_version(new_content, p): the next bump of the text just returned
call_bump_version_again ==
    /\ pc = "imported"
    /\ calls >= 1
    /\ calls < MaxBumps
    /\ raised = "none"
    /\ \E p \in Parts :
          \E r \in {bump_version(new_content, p)} :
             /\ part' = p
             /\ content' = new_content
             /\ raised' = r.raised
             /\ new_content' = r.new_text
             /\ new_version' = r.new_version
    /\ calls' = calls + 1
    /\ UNCHANGED <<file, original, artifacts, pc, repo, no_upload, steps,
                   cmds, rcs, tw_user, tw_pass>>

NextBump ==
    \/ call_bump_version
    \/ call_bump_version_again

SpecBump == InitBump /\ [][NextBump]_vars


(***************************************************************************)
(* Properties                                                              *)
(***************************************************************************)
\* the step s has been executed
InSteps(s) == \E i \in 1..Len(steps) : steps[i] = s

\* how often the step s has been executed
Count(s) == Cardinality({i \in 1..Len(steps) : steps[i] = s})

\* the word w is an argument of the command line cmd
HasArg(cmd, w) == \E i \in 1..Len(cmd) : cmd[i] = w

\* the option w of cmd, followed by its value v
HasOption(cmd, w, v) == \E i \in 1..(Len(cmd) - 1) : cmd[i] = w /\ cmd[i + 1] = v

\* the positions of t where a version declaration starts
Declarations(t) == {i \in 1..Len(t) : MatchAt(t, i).ok}

\* t has a version declaration
HasDeclaration(t) == \E i \in 1..Len(t) : MatchAt(t, i).ok

\* the first version declaration of t
FirstDeclaration(t) ==
    LET D == Declarations(t)
    IN  MatchAt(t, CHOOSE i \in D : \A j \in D : i <= j)

\* the version (major, minor, patch) of the first declaration of t
Triple(t) ==
    LET m == FirstDeclaration(t)
    IN  <<IntOf(group(t, m, 2)), IntOf(group(t, m, 3)), IntOf(group(t, m, 4))>>

\* semantic-version order: lexicographic on (major, minor, patch)
VersionLess(a, b) ==
    \/ a[1] < b[1]
    \/ a[1] = b[1] /\ a[2] < b[2]
    \/ a[1] = b[1] /\ a[2] = b[2] /\ a[3] < b[3]

\* a digit string in plain decimal
PlainDecimal(ds) == Len(ds) >= 1 /\ (Len(ds) = 1 \/ ds[1] # "0")

\* bump_version has been called directly and has returned or raised
Called == pc = "imported" /\ calls >= 1

\* bump_version has been called directly and has returned
Returned == Called /\ raised = "none"

\* C1: when the text has a version declaration, bump_version returns, and the
\* first declaration of the returned text sits where the first declaration
\* of the input sat and carries (M+1, 0, 0) for major, (M, m+1, 0) for minor
\* and (M, m, p+1) for patch, (M, m, p) being the input's version.
C1_BumpRewritesTriple ==
    (Called /\ HasDeclaration(content)) =>
        /\ raised = "none"
        /\ HasDeclaration(new_content)
        /\ start(FirstDeclaration(new_content)) = start(FirstDeclaration(content))
        /\ LET old == Triple(content)
               new == Triple(new_content)
           IN  /\ part = "major" => new = <<old[1] + 1, 0, 0>>
               /\ part = "minor" => new = <<old[1], old[2] + 1, 0>>
               /\ part = "patch" => new = <<old[1], old[2], old[3] + 1>>

\* a minor bump of a version whose patch is not 0 has been made
C1_Witness ==
    /\ Returned
    /\ part = "minor"
    /\ Triple(content)[3] # 0
    /\ Triple(new_content)[3] = 0

\* C2: bump_version changes the first declaration only.  The text before it
\* and the text after it (later declarations included) are the same in the
\* input and in the output, group 1 of the declaration and its closing quote
\* are kept, and between them the output holds digits and dots only.
C2_BumpChangesOnlyFirstDeclaration ==
    Returned =>
        LET m  == FirstDeclaration(content)
            s  == start(m)
            e  == end(m)
            g1 == group(content, m, 1)
            k  == Len(new_content) - Len(content)
        IN  /\ SubSeq(new_content, 1, s - 1) = SubSeq(content, 1, s - 1)
            /\ SubSeq(new_content, e + k, Len(new_content))
                 = SubSeq(content, e, Len(content))
            /\ SubSeq(new_content, s, s + Len(g1) - 1) = g1
            /\ new_content[e + k - 1] = Q
            /\ \A i \in (s + Len(g1))..(e + k - 2) :
                  IsDigit(new_content[i]) \/ new_content[i] = "."
            /\ {i \in Declarations(new_content) : i >= e + k}
                 = {i + k : i \in {j \in Declarations(content) : j >= e}}

\* a text with a later declaration has been bumped, and its length changed
C2_Witness ==
    /\ Returned
    /\ Cardinality(Declarations(content)) >= 2
    /\ Len(new_content) # Len(content)

\* C3: when the text read has no version declaration, bump_version raises and
\* returns nothing, and main ends there: the file is as it was, and no step
\* after the bump and no command is started.
C3_NoDeclarationAborts ==
    (InSteps("bump") /\ ~HasDeclaration(content)) =>
        /\ raised = "RuntimeError"
        /\ pc = "aborted"
        /\ new_content = Unbound
        /\ new_version = Unbound
        /\ file = original
        /\ steps = <<"read", "bump">>
        /\ cmds = <<>>

\* main has ended on a file that has text but no declaration
C3_Witness ==
    /\ pc = "aborted"
    /\ raised = "RuntimeError"
    /\ Len(content) > 0
    /\ ~HasDeclaration(content)

\* C4: for a text with exactly one declaration, the version of the returned
\* text is greater than the version of the input; and greater than the
\* version of the text the successive bumps started from.
C4_BumpIncreasesVersion ==
    (Returned /\ Cardinality(Declarations(content)) = 1) =>
        /\ Cardinality(Declarations(new_content)) = 1
        /\ VersionLess(Triple(content), Triple(new_content))
        /\ Cardinality(Declarations(original)) = 1
        /\ VersionLess(Triple(original), Triple(new_content))

\* a second bump, a major one, of a text with one declaration
C4_Witness ==
    /\ Returned
    /\ calls = 2
    /\ part = "major"
    /\ Cardinality(Declarations(content)) = 1
    /\ Triple(content)[2] # 0

\* the steps of a complete run of main, in the order of the code
Order == <<"read", "bump", "write", "clean", "build", "check", "upload">>

\* C5: the steps of a run are an initial part of read, bump, write, clean,
\* build, check, upload, each once; the commands are the build, then the
\* check, then the upload; the file changes only once the write is done; and
\* when the build is about to start, clean has removed dist and build.
C5_StepsInFixedOrder ==
    /\ Len(steps) <= Len(Order)
    /\ steps = SubSeq(Order, 1, Len(steps))
    /\ Len(cmds) <= 3
    /\ Len(cmds) = Count("build") + Count("check") + Count("upload")
    /\ Len(cmds) >= 1 => cmds[1] = build_cmd
    /\ Len(cmds) >= 2 => cmds[2] = check_cmd
    /\ Len(cmds) >= 3 => SubSeq(cmds[3], 1, 4) = <<PYTHON, "-m", "twine", "upload">>
    /\ file # original => InSteps("write")
    /\ pc = "build" => (InSteps("clean") /\ artifacts \cap {"dist", "build"} = {})

\* a run that went through all seven steps
C5_Witness == steps = Order /\ pc = "done"

\* C6: a command that returns non-zero is the last one: the run is aborted
\* with CalledProcessError, no step follows the failed one, no command was
\* run twice, and the file holds the bumped text, not the original.
C6_FailedStepAborts ==
    \A i \in 1..Len(rcs) :
        rcs[i] # 0 =>
            /\ i = Len(rcs)
            /\ pc = "aborted"
            /\ raised = "CalledProcessError"
            /\ Len(steps) = 4 + i
            /\ \A j \in 1..(i - 1) : cmds[j] # cmds[i]
            /\ file = bump_version(original, part).new_text
            /\ file # original

\* the twine check failed
C6_Witness ==
    /\ Len(rcs) = 2
    /\ rcs[1] = 0
    /\ rcs[2] = 1
    /\ pc = "aborted"

\* C7: an upload is started only without --no-upload and after a build and a
\* check that both returned 0; with --no-upload a finished run ends after the
\* check and no upload command is run; the upload names the repository
\* testpypi exactly when --repo is testpypi and no repository otherwise.
C7_UploadOnlyWhenAllowed ==
    /\ InSteps("upload") =>
          /\ ~no_upload
          /\ Len(cmds) = 3
          /\ cmds[1] = build_cmd /\ rcs[1] = 0
          /\ cmds[2] = check_cmd /\ rcs[2] = 0
          /\ HasArg(cmds[3], "upload")
          /\ repo = "testpypi" <=> HasOption(cmds[3], "--repository", "testpypi")
          /\ repo # "testpypi" => ~HasArg(cmds[3], "--repository")
    /\ no_upload =>
          /\ ~InSteps("upload")
          /\ \A i \in 1..Len(cmds) : ~HasArg(cmds[i], "upload")
          /\ pc = "done" => steps = SubSeq(Order, 1, 6)

\* an upload to the default index has been started
C7_Witness ==
    /\ InSteps("upload")
    /\ repo = "pypi"
    /\ ~HasArg(cmds[3], "--repository")

C9_ManifestWrittenOnce ==
    /\ Count("read") <= 1
    /\ Count("write") <= 1
    /\ InSteps("read") => content = original
    /\ ~InSteps("write") => file = original
    /\ InSteps("write") =>
          /\ raised # "RuntimeError"
          /\ file = bump_version(original, part).new_text
          /\ file = new_content

\* a run that ended after the write, on a file with text before the declaration
C9_Witness ==
    /\ pc = "done"
    /\ InSteps("write")
    /\ file # original
    /\ start(FirstDeclaration(original)) > 1

\* C10: the version string returned is the text between the quotes of the
\* first declaration of the returned text; its three components are plain
\* decimal numbers (no leading zeros) with the values of the successor of the
\* input's version; it is never "unknown".
C10_NewVersionIsDecimalSuccessor ==
    Returned =>
        LET old == Triple(content)
            exp == IF part = "major" THEN <<old[1] + 1, 0, 0>>
                   ELSE IF part = "minor" THEN <<old[1], old[2] + 1, 0>>
                   ELSE <<old[1], old[2], old[3] + 1>>
            m   == FirstDeclaration(new_content)
        IN  /\ new_version # UNKNOWN
            /\ HasDeclaration(new_content)
            /\ new_version
                 = group(new_content, m, 2) \o <<".">> \o group(new_content, m, 3)
                   \o <<".">> \o group(new_content, m, 4)
            /\ \A g \in 2..4 :
                  /\ PlainDecimal(group(new_content, m, g))
                  /\ IntOf(group(new_content, m, g)) = exp[g - 1]

\* a patch bump of a version written with leading zeros
C10_Witness ==
    /\ Returned
    /\ part = "patch"
    /\ ~PlainDecimal(group(content, FirstDeclaration(content), 2))
    /\ ~PlainDecimal(group(content, FirstDeclaration(content), 3))

====
